---- MODULE Spec2Model ----
(***************************************************************************)
(* A model of three pieces of the Langflow repository:                     *)
(*   - MCP server validation and starter-project auto-configuration        *)
(*     (langflow/api/utils/mcp/config_utils.py),                           *)
(*   - the event-based graph recorder (lfx/debug/event_recorder.py),       *)
(*   - PromptComponent.update_build_config                                 *)
(*     (lfx/components/processing/prompt.py).                              *)
(* Strings that the code slices or searches are sequences of one-character *)
(* strings; a Python exception is an outcome record with raised = TRUE.    *)
(***************************************************************************)
EXTENDS Integers, Sequences, FiniteSets, TLC

VARIABLES
    \* MCPServerValidationResult driven on its own
    kw, obj, props,
    \* one call of validate_mcp_server_for_project
    v_in, v_out,
    \* auto_configure_starter_projects_mcp
    a_pc, a_enabled, a_settings, a_users, a_idx, a_folder, a_auth, a_auth0,
    a_flows, a_servers, a_servers0, a_validation, a_apikey, a_url, a_keys,
    a_updates, a_added, a_committed, a_failed,
    \* EventRecorder and record_graph_with_events
    r_pc, observers, events, component_executions, calls, plan, pos,
    consumed, recording, r_exc, r_late,
    \* PromptComponent.update_build_config
    p_pc, build_config, p_field_name, p_field_value, p_old, p_ret,
    p_swallowed

resVars == <<kw, obj, props>>
valVars == <<v_in, v_out>>
autoVars == <<a_pc, a_enabled, a_settings, a_users, a_idx, a_folder, a_auth,
              a_auth0, a_flows, a_servers, a_servers0, a_validation, a_apikey,
              a_url, a_keys, a_updates, a_added, a_committed, a_failed>>
recVars == <<r_pc, observers, events, component_executions, calls, plan, pos,
             consumed, recording, r_exc, r_late>>
prVars == <<p_pc, build_config, p_field_name, p_field_value, p_old, p_ret,
            p_swallowed>>
vars == <<resVars, valVars, autoVars, recVars, prVars>>

\* An optional value (Python's None, a keyword argument the caller did not
\* pass, a dict key that may be missing) is a sequence of length 0 or 1.
Nothing == <<>>
Some(v) == <<v>>
IsSome(o) == Len(o) = 1
Get(o) == o[1]

(***************************************************************************)
(* Strings as sequences of characters.                                     *)
(***************************************************************************)
UpperChars == {"S", "P", "M", "A"}
LowerChars == {"a", "b", "c", "e", "j", "m", "o", "p", "r", "s", "t", "y"}
DigitChars == {"9"}
SpaceChars == {" "}
WordChars == UpperChars \cup LowerChars \cup DigitChars \cup {"_"}

ToLower(c) ==
    CASE c = "S" -> "s"
      [] c = "P" -> "p"
      [] c = "M" -> "m"
      [] c = "A" -> "a"
      [] OTHER -> c

\* The characters of s that are in keep, in order.
RECURSIVE KeepChars(_, _)
KeepChars(s, keep) ==
    IF s = <<>> THEN <<>>
    ELSE IF Head(s) \in keep THEN <<Head(s)>> \o KeepChars(Tail(s), keep)
         ELSE KeepChars(Tail(s), keep)

\* re.sub(r"[class]+", "_", s): every maximal run of characters of the class
\* becomes one underscore.
RECURSIVE SubRuns(_, _, _)
SubRuns(s, class, inRun) ==
    IF s = <<>> THEN <<>>
    ELSE IF Head(s) \in class
         THEN (IF inRun THEN <<>> ELSE <<"_">>) \o SubRuns(Tail(s), class, TRUE)
         ELSE <<Head(s)>> \o SubRuns(Tail(s), class, FALSE)

RECURSIVE LStrip(_, _)
LStrip(s, c) == IF s # <<>> /\ Head(s) = c THEN LStrip(Tail(s), c) ELSE s

RECURSIVE RStrip(_, _)
RStrip(s, c) ==
    IF s # <<>> /\ s[Len(s)] = c THEN RStrip(SubSeq(s, 1, Len(s) - 1), c) ELSE s

\* s[:n]
Prefix(s, n) == SubSeq(s, 1, IF Len(s) < n THEN Len(s) ELSE n)

LowerStr(s) == [i \in 1..Len(s) |-> ToLower(s[i])]

(***************************************************************************)
(* lfx.base.mcp: sanitize_mcp_name and MAX_MCP_SERVER_NAME_LENGTH.         *)
(***************************************************************************)
MAX_MCP_SERVER_NAME_LENGTH == 30
SanitizeMaxLength == 46

sanitize_mcp_name(name) ==
    IF name = <<>> \/ \A i \in 1..Len(name) : name[i] \in SpaceChars
    THEN <<>>
    ELSE LET kept == KeepChars(name, WordChars \cup SpaceChars \cup {"-"})
             unders == SubRuns(kept, SpaceChars \cup {"-"}, FALSE)
             collapsed == SubRuns(unders, {"_"}, FALSE)
             stripped == RStrip(LStrip(collapsed, "_"), "_")
             lead == IF stripped # <<>> /\ Head(stripped) \in DigitChars
                     THEN <<"_">> \o stripped ELSE stripped
             low == LowerStr(lead)
             cut == IF Len(low) > SanitizeMaxLength
                    THEN RStrip(Prefix(low, SanitizeMaxLength), "_") ELSE low
         IN IF cut = <<>> THEN <<"u", "n", "n", "a", "m", "e", "d">> ELSE cut

\* f"lf-{sanitize_mcp_name(project_name)[: (MAX_MCP_SERVER_NAME_LENGTH - 4)]}"
GeneratedServerName(project_name) ==
    <<"l", "f", "-">>
        \o Prefix(sanitize_mcp_name(project_name), MAX_MCP_SERVER_NAME_LENGTH - 4)

(***************************************************************************)
(* class MCPServerValidationResult.                                        *)
(***************************************************************************)
\* The result of a call: a value returned, or an exception raised.
Returned(v) == [raised |-> FALSE, exc |-> "", value |-> Some(v)]
Raised(e) == [raised |-> TRUE, exc |-> e, value |-> Nothing]

\* Keyword arguments of a call: each one passed (Some) or not (Nothing).
Kwargs(se, pm, sn, ec, cm) ==
    [server_exists |-> se, project_id_matches |-> pm, server_name |-> sn,
     existing_config |-> ec, conflict_message |-> cm]

\* __init__(self, *, server_exists, project_id_matches, server_name="",
\*          existing_config=None, conflict_message=""): the first two are
\* keyword-only parameters without a default, so a call that leaves one out
\* raises TypeError.
MCPServerValidationResult(k) ==
    IF IsSome(k.server_exists) /\ IsSome(k.project_id_matches)
    THEN Returned([server_exists |-> Get(k.server_exists),
                   project_id_matches |-> Get(k.project_id_matches),
                   server_name |-> IF IsSome(k.server_name)
                                   THEN Get(k.server_name) ELSE <<>>,
                   existing_config |-> k.existing_config,
                   conflict_message |-> IF IsSome(k.conflict_message)
                                        THEN Get(k.conflict_message) ELSE ""])
    ELSE Raised("TypeError")

has_conflict(self) == self.server_exists /\ ~self.project_id_matches

should_skip(self) == self.server_exists /\ self.project_id_matches

should_proceed_AsAnd(self) == ~self.server_exists /\ self.project_id_matches

should_proceed(self) == ~self.server_exists \/ self.project_id_matches

(***************************************************************************)
(* validate_mcp_server_for_project.                                        *)
(***************************************************************************)
\* A dict with no entries; d.get(key, {}) of a missing key.
EmptyMap == <<>>

\* f"{base_url}/api/v1/mcp/project/{project_id}/sse": a URL is the sequence
\* of its parts, and "str(project_id) in url" is the id being one of them.
SseUrl(host, port, project_id) ==
    <<"http://", host, ":", port, "/api/v1/mcp/project/", project_id, "/sse">>

StrIn(needle, hay) == \E i \in 1..Len(hay) : hay[i] = needle

\* The conflict message chosen by the operation (lines 137-154).
ConflictMessage(project_id_matches, operation) ==
    IF project_id_matches THEN ""
    ELSE CASE operation = "create" -> "conflict:create"
           [] operation = "update" -> "conflict:update"
           [] operation = "delete" -> "conflict:delete"
           [] OTHER -> ""

\* The body of the try block (lines 116-162), given what get_server_list did.
ValidateTry(project_id, operation, server_name, gsl) ==
    IF gsl.raised THEN Raised(gsl.exc)
    ELSE LET existing_servers == Get(gsl.value)
             mcpServers == IF IsSome(existing_servers.mcpServers)
                           THEN Get(existing_servers.mcpServers) ELSE EmptyMap
         IN IF server_name \notin DOMAIN mcpServers
            THEN MCPServerValidationResult(
                     Kwargs(Some(FALSE), Nothing, Some(server_name), Nothing, Nothing))
            ELSE LET existing_server_config == mcpServers[server_name]
                     existing_args == IF IsSome(existing_server_config.args)
                                      THEN Get(existing_server_config.args) ELSE <<>>
                     project_id_matches ==
                         /\ existing_args # <<>>
                         /\ StrIn(project_id, existing_args[Len(existing_args)])
                 IN MCPServerValidationResult(
                        Kwargs(Some(TRUE), Some(project_id_matches), Some(server_name),
                               Some(existing_server_config),
                               Some(ConflictMessage(project_id_matches, operation))))

\* The whole call: the try block, and on any exception the handler of lines
\* 164-170, which logs a warning and builds the fallback result. warned tells
\* whether the warning was logged.
validate_mcp_server_for_project(project_id, project_name, operation, gsl) ==
    LET server_name == GeneratedServerName(project_name)
        tried == ValidateTry(project_id, operation, server_name, gsl)
    IN IF tried.raised
       THEN [warned |-> TRUE,
             out |-> MCPServerValidationResult(
                         Kwargs(Some(FALSE), Nothing, Some(server_name), Nothing, Nothing))]
       ELSE [warned |-> FALSE, out |-> tried]

(***************************************************************************)
(* Values the checks draw inputs from.                                     *)
(***************************************************************************)
\* langflow.services.database.models.folder.constants.DEFAULT_FOLDER_NAME
DEFAULT_FOLDER_NAME ==
    <<"S", "t", "a", "r", "t", "e", "r", " ", "P", "r", "o", "j", "e", "c", "t", "s">>

\* "My-Proj", "9 cats", "" and a name whose sanitized form is longer than
\* MAX_MCP_SERVER_NAME_LENGTH - 4 characters.
ProjectNames ==
    {DEFAULT_FOLDER_NAME,
     <<"M", "y", "-", "P", "r", "o", "j">>,
     <<"9", " ", "c", "a", "t", "s">>,
     <<>>,
     <<"a", "b", "c", "a", "b", "c", "a", "b", "c", "a", "b", "c", "a", "b", "c",
       "a", "b", "c", "a", "b", "c", "a", "b", "c", " ", "a", "b", "c", "a", "b">>}

ProjectIds == {"uuid-1", "uuid-2"}
Operations == {"create", "update", "delete", "sync"}
OtherServerName == <<"o", "t", "e", "r">>

\* The configurations a stored server may have: no "args" key, empty args, a
\* proxy command whose last argument is some project's SSE URL, and one whose
\* URL is not the last argument.
ServerConfigs ==
    {[args |-> Nothing], [args |-> Some(<<>>)]}
    \cup {[args |-> Some(<<<<"mcp-proxy">>, SseUrl("localhost", "7860", p)>>)] :
             p \in ProjectIds}
    \cup {[args |-> Some(<<SseUrl("localhost", "7860", p), <<"--debug">>>>)] :
             p \in ProjectIds}

\* The server lists get_server_list may return for a user whose generated
\* server name is name.
ServerMaps(name) ==
    {EmptyMap, OtherServerName :> [args |-> Some(<<>>)]}
    \cup {name :> c : c \in ServerConfigs}
    \cup {(name :> c) @@ (OtherServerName :> [args |-> Some(<<>>)]) : c \in ServerConfigs}

GetServerListOutcomes(name) ==
    {Raised("HTTPException"), Returned([mcpServers |-> Nothing])}
    \cup {Returned([mcpServers |-> Some(m)]) : m \in ServerMaps(name)}

(***************************************************************************)
(* MCPServerValidationResult on its own: construct one from any keyword    *)
(* arguments, then read its three properties.                              *)
(***************************************************************************)
KwChoices ==
    {Kwargs(se, pm, sn, ec, cm) :
        se \in {Nothing, Some(TRUE), Some(FALSE)},
        pm \in {Nothing, Some(TRUE), Some(FALSE)},
        sn \in {Nothing, Some(GeneratedServerName(DEFAULT_FOLDER_NAME)), Some(<<>>)},
        ec \in {Nothing, Some([args |-> Some(<<>>)])},
        cm \in {Nothing, Some("conflict:create")}}

ResIdle == kw = Nothing /\ obj = Nothing /\ props = Nothing

ResInit == kw \in {Some(k) : k \in KwChoices} /\ obj = Nothing /\ props = Nothing

Construct ==
    /\ IsSome(kw) /\ obj = Nothing
    /\ obj' = Some(MCPServerValidationResult(Get(kw)))
    /\ UNCHANGED <<kw, props>>

ReadProperties ==
    /\ IsSome(obj) /\ ~Get(obj).raised /\ props = Nothing
    /\ LET self == Get(Get(obj).value)
       IN props' = Some([has_conflict |-> has_conflict(self),
                         should_skip |-> should_skip(self),
                         should_proceed |-> should_proceed(self)])
    /\ UNCHANGED <<kw, obj>>

(***************************************************************************)
(* One call of validate_mcp_server_for_project on any inputs.              *)
(***************************************************************************)
ValIdle == v_in = Nothing /\ v_out = Nothing

ValInit ==
    /\ v_in \in {Some([project_id |-> p, project_name |-> n, operation |-> o,
                        gsl |-> g]) :
                    p \in ProjectIds, n \in ProjectNames, o \in Operations,
                    g \in UNION {GetServerListOutcomes(GeneratedServerName(m)) :
                                   m \in ProjectNames}}
    /\ v_out = Nothing

ValidateCall ==
    /\ IsSome(v_in) /\ v_out = Nothing
    /\ LET i == Get(v_in)
       IN v_out' = Some(validate_mcp_server_for_project(
                            i.project_id, i.project_name, i.operation, i.gsl))
    /\ UNCHANGED v_in

\* The call has ended and returned a result object.
ValReturned == IsSome(v_out) /\ ~Get(v_out).out.raised
ValResult == Get(Get(v_out).out.value)
\* The servers the call was given (none when get_server_list raised or the
\* dict has no "mcpServers").
ValServers ==
    LET g == Get(v_in).gsl
    IN IF ~g.raised /\ IsSome(Get(g.value).mcpServers)
       THEN Get(Get(g.value).mcpServers) ELSE EmptyMap

(***************************************************************************)
(* get_url_by_os and get_project_sse_url.                                  *)
(***************************************************************************)
ALL_INTERFACES_HOST == "0.0.0.0"

\* On WSL with a local host, and when "hostname -I" answers, the host of the
\* URL is replaced by the WSL address; wsl_ip is Some(address) in that case.
get_url_by_os(host, port, project_id, wsl_ip) ==
    IF IsSome(wsl_ip) /\ host \in {"localhost", "127.0.0.1"}
    THEN SseUrl(Get(wsl_ip), port, project_id)
    ELSE SseUrl(host, port, project_id)

get_project_sse_url(project_id, settings) ==
    LET server_port == IF IsSome(settings.runtime_port) THEN Get(settings.runtime_port)
                       ELSE IF IsSome(settings.port) THEN Get(settings.port)
                       ELSE "7860"
        host == IF settings.host = ALL_INTERFACES_HOST THEN "localhost"
                ELSE settings.host
    IN get_url_by_os(host, server_port, project_id, settings.wsl_ip)

SettingsChoices ==
    {[host |-> "0.0.0.0", runtime_port |-> Nothing, port |-> Nothing,
      wsl_ip |-> Nothing],
     [host |-> "localhost", runtime_port |-> Some("7861"), port |-> Some("7860"),
      wsl_ip |-> Some("172.20.0.2")],
     [host |-> "example.org", runtime_port |-> Nothing, port |-> Some("8000"),
      wsl_ip |-> Nothing]}

(***************************************************************************)
(* auto_configure_starter_projects_mcp: one run over the users of the      *)
(* database. A user is an index; each user has at most one "Starter        *)
(* Projects" folder, one starter flow in it, and a stored MCP server list. *)
(***************************************************************************)
NumUsers == 2
FolderIds == <<"uuid-1", "uuid-2", "uuid-3", "uuid-4">>
UserNames == <<"alice", "bob", "carol", "dave">>
StarterServerName == GeneratedServerName(DEFAULT_FOLDER_NAME)

StarterFlowName == <<"M", "y", "-", "P", "r", "o", "j">>

EncryptedApiKeyAuth == "enc:apikey"

\* What a user's stored server list may hold under the starter server name:
\* nothing, a proxy to this user's starter folder, a proxy to another
\* project, or a server without arguments.
UserServerMaps(u) ==
    {EmptyMap,
     StarterServerName :> [args |-> Some(<<<<"mcp-proxy">>,
                                           SseUrl("localhost", "7860", FolderIds[u])>>)],
     StarterServerName :> [args |-> Some(<<<<"mcp-proxy">>,
                                           SseUrl("localhost", "7860", "uuid-other")>>)],
     StarterServerName :> [args |-> Some(<<>>)]}

AutoIdle ==
    /\ a_pc = "idle" /\ a_enabled = FALSE /\ a_settings = Nothing
    /\ a_users = <<>> /\ a_idx = 0 /\ a_folder = <<>> /\ a_auth = <<>>
    /\ a_auth0 = <<>> /\ a_flows = <<>> /\ a_servers = <<>> /\ a_servers0 = <<>>
    /\ a_validation = <<>> /\ a_apikey = Nothing /\ a_url = Nothing
    /\ a_keys = <<>> /\ a_updates = <<>> /\ a_added = 0
    /\ a_committed = FALSE /\ a_failed = FALSE

AutoInit ==
    /\ a_pc = "start"
    /\ a_enabled \in BOOLEAN
    /\ a_settings \in {Some(s) : s \in SettingsChoices}
    /\ \E n \in 0..NumUsers :
          /\ a_users = [i \in 1..n |-> i]
          /\ a_folder \in [1..n -> {Nothing, Some("folder")}]
          /\ a_auth \in [1..n -> {Nothing, Some("enc:oauth")}]
          /\ a_flows \in [1..n -> {[mcp_enabled |-> Nothing, action_name |-> Nothing],
                                   [mcp_enabled |-> Some(FALSE), action_name |-> Nothing]}]
          /\ a_servers \in {f \in [1..n -> UNION {UserServerMaps(u) : u \in 1..n}] :
                                \A u \in 1..n : f[u] \in UserServerMaps(u)}
          \* a user without a starter folder has nothing else that matters
          /\ \A u \in 1..n :
                a_folder[u] = Nothing =>
                    /\ a_auth[u] = Nothing
                    /\ a_flows[u].mcp_enabled = Nothing
                    /\ a_servers[u] = EmptyMap
          /\ a_validation = [i \in 1..n |-> Nothing]
          /\ a_keys = [i \in 1..n |-> 0]
          /\ a_updates = [i \in 1..n |-> <<>>]
    /\ a_auth0 = a_auth
    /\ a_servers0 = a_servers
    /\ a_idx = 0
    /\ a_apikey = Nothing /\ a_url = Nothing
    /\ a_added = 0 /\ a_committed = FALSE /\ a_failed = FALSE

\* The user the loop is at, and the move to the next one ("continue", or the
\* end of the loop body): the next user, or the commit after the loop.
CurUser == a_users[a_idx]

NextUser ==
    IF a_idx < Len(a_users)
    THEN a_idx' = a_idx + 1 /\ a_pc' = "user"
    ELSE a_idx' = a_idx /\ a_pc' = "commit"

\* Lines 225-229: nothing is done unless add_projects_to_mcp_servers is set.
A_Start ==
    /\ a_pc = "start"
    /\ a_pc' = IF a_enabled THEN "users" ELSE "done"
    /\ UNCHANGED <<a_enabled, a_settings, a_users, a_idx, a_folder, a_auth, a_auth0,
                   a_flows, a_servers, a_servers0, a_validation, a_apikey, a_url,
                   a_keys, a_updates, a_added, a_committed, a_failed>>

\* Lines 239-247: the users are read; a failure ends the run in the outer
\* handler (line 380), and so does an empty list.
A_LoadUsers ==
    /\ a_pc = "users"
    /\ \E ok \in BOOLEAN :
          IF ~ok THEN a_pc' = "done" /\ a_failed' = TRUE /\ a_idx' = a_idx
          ELSE /\ a_failed' = a_failed
               /\ IF a_users = <<>> THEN a_pc' = "done" /\ a_idx' = a_idx
                  ELSE a_pc' = "user" /\ a_idx' = 1
    /\ UNCHANGED <<a_enabled, a_settings, a_users, a_folder, a_auth, a_auth0,
                   a_flows, a_servers, a_servers0, a_validation, a_apikey, a_url,
                   a_keys, a_updates, a_added, a_committed>>

\* Lines 248-299: the user's starter folder is looked up (a user without one
\* is skipped) and MCP is enabled on its flows that have no setting yet.
A_UserFolder ==
    /\ a_pc = "user"
    /\ \E ok \in BOOLEAN :
          IF ~ok THEN a_failed' = TRUE /\ NextUser /\ a_flows' = a_flows
          ELSE /\ a_failed' = a_failed
               /\ IF a_folder[CurUser] = Nothing
                  THEN NextUser /\ a_flows' = a_flows
                  ELSE /\ a_pc' = "validate" /\ a_idx' = a_idx
                       /\ a_flows' =
                            [a_flows EXCEPT ![CurUser] =
                                IF @.mcp_enabled = Nothing
                                THEN [mcp_enabled |-> Some(TRUE),
                                      action_name |->
                                          IF @.action_name = Nothing
                                          THEN Some(sanitize_mcp_name(StarterFlowName))
                                          ELSE @.action_name]
                                ELSE @]
    /\ UNCHANGED <<a_enabled, a_settings, a_users, a_folder, a_auth, a_auth0,
                   a_servers, a_servers0, a_validation, a_apikey, a_url, a_keys,
                   a_updates, a_added, a_committed>>

\* Lines 301-310: validate_mcp_server_for_project for the starter folder. An
\* exception leaving the call is caught by the handler of line 368, which
\* moves on to the next user.
A_Validate ==
    /\ a_pc = "validate"
    /\ \E g \in {Raised("HTTPException"),
                  Returned([mcpServers |-> Some(a_servers[CurUser])])} :
          LET r == validate_mcp_server_for_project(
                       FolderIds[CurUser], DEFAULT_FOLDER_NAME, "create", g)
          IN /\ a_failed' = (a_failed \/ g.raised)
             /\ IF r.out.raised
                THEN NextUser /\ a_validation' = a_validation
                ELSE /\ a_pc' = "decide" /\ a_idx' = a_idx
                     /\ a_validation' = [a_validation EXCEPT ![CurUser] = r.out.value]
    /\ UNCHANGED <<a_enabled, a_settings, a_users, a_folder, a_auth, a_auth0,
                   a_flows, a_servers, a_servers0, a_apikey, a_url, a_keys,
                   a_updates, a_added, a_committed>>

\* Lines 312-327, with the skip test lost: every validated user is set up.
A_DecideNeverSkip ==
    /\ a_pc = "decide"
    /\ a_pc' = "auth" /\ a_idx' = a_idx
    /\ UNCHANGED <<a_enabled, a_settings, a_users, a_folder, a_auth, a_auth0,
                   a_flows, a_servers, a_servers0, a_validation, a_apikey, a_url,
                   a_keys, a_updates, a_added, a_committed, a_failed>>

\* Lines 312-327: a user whose server exists for the same project is skipped.
A_Decide ==
    /\ a_pc = "decide"
    /\ IF should_skip(Get(a_validation[CurUser]))
       THEN NextUser
       ELSE a_pc' = "auth" /\ a_idx' = a_idx
    /\ UNCHANGED <<a_enabled, a_settings, a_users, a_folder, a_auth, a_auth0,
                   a_flows, a_servers, a_servers0, a_validation, a_apikey, a_url,
                   a_keys, a_updates, a_added, a_committed, a_failed>>

\* Lines 331-334: API-key authentication is set on a folder that has none.
A_Auth ==
    /\ a_pc = "auth"
    /\ a_auth' = [a_auth EXCEPT ![CurUser] =
                      IF @ = Nothing THEN Some(EncryptedApiKeyAuth) ELSE @]
    /\ a_pc' = "apikey"
    /\ UNCHANGED <<a_enabled, a_settings, a_users, a_idx, a_folder, a_auth0,
                   a_flows, a_servers, a_servers0, a_validation, a_apikey, a_url,
                   a_keys, a_updates, a_added, a_committed, a_failed>>

\* Lines 337-338: create_api_key for the user.
A_CreateApiKey ==
    /\ a_pc = "apikey"
    /\ \E ok \in BOOLEAN :
          IF ~ok
          THEN a_failed' = TRUE /\ NextUser /\ a_keys' = a_keys /\ a_apikey' = a_apikey
          ELSE /\ a_failed' = a_failed
               /\ a_keys' = [a_keys EXCEPT ![CurUser] = @ + 1]
               /\ a_apikey' = Some(<<"sk-", UserNames[CurUser]>>)
               /\ a_pc' = "url" /\ a_idx' = a_idx
    /\ UNCHANGED <<a_enabled, a_settings, a_users, a_folder, a_auth, a_auth0,
                   a_flows, a_servers, a_servers0, a_validation, a_url, a_updates,
                   a_added, a_committed>>

\* Line 341: the SSE URL of the user's starter folder.
A_SseUrl ==
    /\ a_pc = "url"
    /\ a_url' = Some(get_project_sse_url(FolderIds[CurUser], Get(a_settings)))
    /\ a_pc' = "update"
    /\ UNCHANGED <<a_enabled, a_settings, a_users, a_idx, a_folder, a_auth, a_auth0,
                   a_flows, a_servers, a_servers0, a_validation, a_apikey, a_keys,
                   a_updates, a_added, a_committed, a_failed>>

\* langflow.api.v2.mcp.update_server: the configuration is stored under the
\* name in the user's server list.
update_server(servers, server_name, server_config) ==
    [n \in DOMAIN servers \cup {server_name} |->
        IF n = server_name THEN server_config ELSE servers[n]]

\* Lines 344-366: the server configuration is built and update_server called.
A_UpdateServer ==
    /\ a_pc = "update"
    /\ LET server_name == Get(a_validation[CurUser]).server_name
           server_config ==
               [args |-> Some(<<<<"mcp-proxy">>, <<"--headers">>, <<"x-api-key">>,
                                Get(a_apikey), Get(a_url)>>)]
       IN \E ok \in BOOLEAN :
            /\ a_updates' = [a_updates EXCEPT ![CurUser] =
                                 Append(@, [server_name |-> server_name,
                                            server_config |-> server_config,
                                            ok |-> ok])]
            /\ IF ~ok
               THEN a_failed' = TRUE /\ a_servers' = a_servers /\ a_added' = a_added
               ELSE /\ a_failed' = a_failed
                    /\ a_servers' = [a_servers EXCEPT ![CurUser] =
                                         update_server(@, server_name, server_config)]
                    /\ a_added' = a_added + 1
            /\ NextUser
    /\ UNCHANGED <<a_enabled, a_settings, a_users, a_folder, a_auth, a_auth0,
                   a_flows, a_servers0, a_validation, a_apikey, a_url, a_keys,
                   a_committed>>

\* Line 373: the session is committed after the loop.
A_Commit ==
    /\ a_pc = "commit"
    /\ \E ok \in BOOLEAN :
          /\ a_committed' = ok
          /\ a_failed' = (a_failed \/ ~ok)
    /\ a_pc' = "done"
    /\ UNCHANGED <<a_enabled, a_settings, a_users, a_idx, a_folder, a_auth, a_auth0,
                   a_flows, a_servers, a_servers0, a_validation, a_apikey, a_url,
                   a_keys, a_updates, a_added>>

(***************************************************************************)
(* class EventRecorder.                                                    *)
(***************************************************************************)
\* A recorder object: [events, component_executions].
on_event_Dedup(self, event) ==
    [events |-> IF \E i \in 1..Len(self.events) : self.events[i] = event
                THEN self.events ELSE Append(self.events, event),
     component_executions |->
         IF event.vertex_id # ""
            /\ ~\E i \in 1..Len(self.component_executions) :
                    self.component_executions[i] = event.vertex_id
         THEN Append(self.component_executions, event.vertex_id)
         ELSE self.component_executions]

\* on_event: the event is appended; its vertex id is noted once.
on_event(self, event) ==
    [events |-> Append(self.events, event),
     component_executions |->
         IF event.vertex_id # ""
            /\ ~\E i \in 1..Len(self.component_executions) :
                    self.component_executions[i] = event.vertex_id
         THEN Append(self.component_executions, event.vertex_id)
         ELSE self.component_executions]

\* get_recording: the recording holds the recorder's own lists.
get_recording(flow_name, self) ==
    [flow_name |-> flow_name, events |-> self.events,
     component_executions |-> self.component_executions]

(***************************************************************************)
(* The graph as record_graph_with_events uses it: a list of observers, and *)
(* async_start, a generator that between its results emits mutation       *)
(* events to the observers and may raise.                                  *)
(***************************************************************************)
register_observer(obs, o) == Append(obs, o)

RECURSIVE unregister_observer(_, _)
unregister_observer(obs, o) ==
    IF obs = <<>> THEN <<>>
    ELSE IF Head(obs) = o THEN Tail(obs)
         ELSE <<Head(obs)>> \o unregister_observer(Tail(obs), o)

IsRegistered(obs, o) == \E i \in 1..Len(obs) : obs[i] = o

MaxPlan == 4
MaxLate == 1

MutationEvents ==
    {[vertex_id |-> v, event_type |-> "queue_extended"] : v \in {"", "v1", "v2"}}
NoEvent == [vertex_id |-> "", event_type |-> ""]

\* What async_start does next: emit an event, yield a result, or raise.
PlanSteps ==
    {[op |-> "emit", event |-> e, result |-> ""] : e \in MutationEvents}
    \cup {[op |-> "yield", event |-> NoEvent, result |-> r] : r \in {"Vertex", "Finish"}}
    \cup {[op |-> "raise", event |-> NoEvent, result |-> ""]}

Plans == UNION {[1..n -> PlanSteps] : n \in 0..MaxPlan}

RecIdle ==
    /\ r_pc = "idle" /\ observers = <<>> /\ events = <<>>
    /\ component_executions = <<>> /\ calls = <<>> /\ plan = <<>> /\ pos = 0
    /\ consumed = <<>> /\ recording = Nothing /\ r_exc = Nothing /\ r_late = 0

\* Line 229: the recorder is new, with no events.
RecInit ==
    /\ r_pc = "start"
    /\ observers \in {<<>>, <<"other">>}
    /\ events = <<>> /\ component_executions = <<>> /\ calls = <<>>
    /\ plan \in Plans
    /\ pos = 0 /\ consumed = <<>> /\ recording = Nothing /\ r_exc = Nothing
    /\ r_late = 0

\* The graph calls its observers with an event: the recorder's on_event runs
\* if it is registered. calls is the log of the events on_event was called
\* with; a recording already returned shares the recorder's lists.
Deliver(event) ==
    IF IsRegistered(observers, "rec")
    THEN LET self == on_event([events |-> events,
                               component_executions |-> component_executions], event)
         IN /\ events' = self.events
            /\ component_executions' = self.component_executions
            /\ calls' = Append(calls, event)
            /\ recording' = IF IsSome(recording)
                             THEN Some(get_recording(Get(recording).flow_name, self))
                             ELSE recording
    ELSE UNCHANGED <<events, component_executions, calls, recording>>

\* Line 230.
R_Register ==
    /\ r_pc = "start"
    /\ observers' = register_observer(observers, "rec")
    /\ r_pc' = "iter"
    /\ UNCHANGED <<events, component_executions, calls, plan, pos, consumed,
                   recording, r_exc, r_late>>

\* Lines 236-238: the generator is run to its next result. It may emit
\* events on the way, raise, or end; the loop ends at Finish.
R_Iterate ==
    /\ r_pc = "iter"
    /\ IF pos = Len(plan)
       THEN /\ r_pc' = "finally"
            /\ UNCHANGED <<events, component_executions, calls, recording, pos,
                           consumed, r_exc>>
       ELSE LET step == plan[pos + 1]
            IN /\ pos' = pos + 1
               /\ CASE step.op = "emit" ->
                         /\ Deliver(step.event)
                         /\ UNCHANGED <<r_pc, consumed, r_exc>>
                    [] step.op = "yield" ->
                         /\ consumed' = Append(consumed, step.result)
                         /\ r_pc' = IF step.result = "Finish" THEN "finally" ELSE "iter"
                         /\ UNCHANGED <<events, component_executions, calls,
                                        recording, r_exc>>
                    [] OTHER ->
                         /\ r_exc' = Some("RuntimeError")
                         /\ r_pc' = "finally"
                         /\ UNCHANGED <<events, component_executions, calls,
                                        recording, consumed>>
    /\ UNCHANGED <<observers, plan, r_late>>

\* The end of the call with unregistering left to the normal path only.
R_FinallyOnSuccessOnly ==
    /\ r_pc = "finally"
    /\ IF IsSome(r_exc)
       THEN r_pc' = "raised" /\ UNCHANGED <<recording, observers>>
       ELSE /\ observers' = unregister_observer(observers, "rec")
            /\ r_pc' = "done"
            /\ recording' = Some(get_recording("Recording",
                                 [events |-> events,
                                  component_executions |-> component_executions]))
    /\ UNCHANGED <<events, component_executions, calls, plan, pos, consumed,
                   r_exc, r_late>>

\* Lines 240-243: the finally clause unregisters the observer; then the
\* exception, if any, leaves the call, or the recording is returned.
R_Finally ==
    /\ r_pc = "finally"
    /\ observers' = unregister_observer(observers, "rec")
    /\ IF IsSome(r_exc)
       THEN r_pc' = "raised" /\ UNCHANGED recording
       ELSE /\ r_pc' = "done"
            /\ recording' = Some(get_recording("Recording",
                                 [events |-> events,
                                  component_executions |-> component_executions]))
    /\ UNCHANGED <<events, component_executions, calls, plan, pos, consumed,
                   r_exc, r_late>>

\* After the call the graph may go on mutating and calling its observers.
G_LateEvent ==
    /\ r_pc \in {"done", "raised"}
    /\ r_late < MaxLate
    /\ r_late' = r_late + 1
    /\ \E e \in MutationEvents : Deliver(e)
    /\ UNCHANGED <<r_pc, observers, plan, pos, consumed, r_exc>>

(***************************************************************************)
(* PromptComponent.update_build_config.                                    *)
(*                                                                         *)
(* build_config is [template |-> [type, value], custom_fields, fields]:    *)
(* custom_fields is Nothing when build_config has no "custom_fields" key,  *)
(* Some(Nothing) when that dict has no "template" key, and Some(Some(l))   *)
(* when it lists the names l; fields is the set of the other keys of       *)
(* build_config (the inputs and the template's variables).                 *)
(* A template is a sequence of tokens: text, {name}, {{name}}, a mustache  *)
(* section {{#name}} and an unmatched single brace.                        *)
(***************************************************************************)
PROMPT == "prompt"
MUSTACHE_PROMPT == "mustache"

Tok(kind, name) == [kind |-> kind, name |-> name]

\* The names of the tokens of one kind, in order, each once.
RECURSIVE TokenNames(_, _, _)
TokenNames(tpl, kind, seen) ==
    IF tpl = <<>> THEN <<>>
    ELSE IF Head(tpl).kind = kind /\ Head(tpl).name \notin seen
         THEN <<Head(tpl).name>>
                  \o TokenNames(Tail(tpl), kind, seen \cup {Head(tpl).name})
         ELSE TokenNames(Tail(tpl), kind, seen)

HasToken(tpl, kind) == \E i \in 1..Len(tpl) : tpl[i].kind = kind

SeqToSet(s) == {s[i] : i \in 1..Len(s)}

\* lfx.utils.mustache_security.validate_mustache_template: a template with
\* anything but plain {{name}} variables is refused with ValueError.
validate_mustache_template(tpl) ==
    IF HasToken(tpl, "section") THEN Raised("ValueError") ELSE Returned(TRUE)

\* lfx.base.prompts.api_utils.process_prompt_template: the template is
\* validated under the mode's syntax (ValueError when it is malformed);
\* then its variables become the listed custom fields and fields of the
\* node. On ValueError nothing is changed.
process_prompt_template(tpl, bc, is_mustache) ==
    IF ~is_mustache /\ HasToken(tpl, "open") THEN [raised |-> TRUE, bc |-> bc]
    ELSE LET input_variables ==
                 TokenNames(tpl, IF is_mustache THEN "double" ELSE "single", {})
             old == IF IsSome(Get(bc.custom_fields))
                    THEN SeqToSet(Get(Get(bc.custom_fields))) ELSE {}
         IN [raised |-> FALSE,
             bc |-> [bc EXCEPT !.custom_fields = Some(Some(input_variables)),
                               !.fields = (@ \cup SeqToSet(input_variables))
                                              \ (old \ SeqToSet(input_variables))]]

\* list.remove(x): the first occurrence goes.
RECURSIVE ListRemove(_, _)
ListRemove(l, x) ==
    IF l = <<>> THEN <<>>
    ELSE IF Head(l) = x THEN Tail(l) ELSE <<Head(l)>> \o ListRemove(Tail(l), x)

\* Lines 66-70 with the pop from build_config left out.
RECURSIVE CleanupLoopListOnly(_, _, _)
CleanupLoopListOnly(copy, list, fields) ==
    IF copy = <<>> THEN [list |-> list, fields |-> fields]
    ELSE LET old_field == Head(copy)
         IN CleanupLoopListOnly(Tail(copy),
                                IF old_field \in SeqToSet(list)
                                THEN ListRemove(list, old_field) ELSE list,
                                fields)

\* Lines 66-70: for each name of a copy of the list, the name is removed from
\* the list if it is (still) there, and popped from build_config.
RECURSIVE CleanupLoop(_, _, _)
CleanupLoop(copy, list, fields) ==
    IF copy = <<>> THEN [list |-> list, fields |-> fields]
    ELSE LET old_field == Head(copy)
         IN CleanupLoop(Tail(copy),
                        IF old_field \in SeqToSet(list)
                        THEN ListRemove(list, old_field) ELSE list,
                        fields \ {old_field})

ModeType(field_value) ==
    IF field_value = "{{variable}}" THEN MUSTACHE_PROMPT ELSE PROMPT

MaxOldFields == 2
FieldNames == {"a", "b", "zz"}
OldLists == UNION {[1..n -> FieldNames] : n \in 0..MaxOldFields}

Templates ==
    {<<>>,
     <<Tok("text", "")>>,
     <<Tok("single", "a"), Tok("double", "b")>>,
     <<Tok("single", "a"), Tok("text", ""), Tok("double", "a")>>,
     <<Tok("double", "b"), Tok("section", "c")>>,
     <<Tok("single", "a"), Tok("open", "")>>}

PrIdle ==
    /\ p_pc = "idle" /\ build_config = Nothing /\ p_field_name = ""
    /\ p_field_value = "" /\ p_old = <<>> /\ p_ret = FALSE /\ p_swallowed = FALSE

PrInit ==
    /\ p_pc = "call"
    /\ build_config \in
         {Some([template |-> [type |-> ty, value |-> v], custom_fields |-> cf,
                fields |-> fs]) :
            ty \in {PROMPT, MUSTACHE_PROMPT}, v \in Templates,
            cf \in {Nothing, Some(Nothing)} \cup {Some(Some(l)) : l \in OldLists},
            fs \in SUBSET {"a", "b", "tool_placeholder"}}
    /\ p_field_name \in {"mode", "template", "None"}
    /\ p_field_value \in {"{variable}", "{{variable}}", "text"}
    /\ p_old = LET cf == Get(build_config).custom_fields
               IN IF IsSome(cf) /\ IsSome(Get(cf)) THEN Get(Get(cf)) ELSE <<>>
    /\ p_ret = FALSE /\ p_swallowed = FALSE

\* Line 48 false: the configuration is returned as it is.
P_OtherField ==
    /\ p_pc = "call" /\ p_field_name # "mode"
    /\ p_pc' = "done" /\ p_ret' = TRUE
    /\ UNCHANGED <<build_config, p_field_name, p_field_value, p_old, p_swallowed>>

\* Lines 48-58: the template's type follows the mode; an empty template ends
\* the call.
P_SetType ==
    /\ p_pc = "call" /\ p_field_name = "mode"
    /\ build_config' = Some([Get(build_config) EXCEPT
                                 !.template.type = ModeType(p_field_value)])
    /\ IF Get(build_config).template.value = <<>>
       THEN p_pc' = "done" /\ p_ret' = TRUE
       ELSE p_pc' = "cleanup" /\ p_ret' = p_ret
    /\ UNCHANGED <<p_field_name, p_field_value, p_old, p_swallowed>>

\* Lines 59-70 with the pop from build_config left out of the loop.
P_CleanupListOnly ==
    /\ p_pc = "cleanup"
    /\ LET bc == Get(build_config)
           cf == IF IsSome(bc.custom_fields) THEN Get(bc.custom_fields) ELSE Nothing
           old_custom_fields == IF IsSome(cf) THEN Get(cf) ELSE <<>>
           r == CleanupLoopListOnly(old_custom_fields, old_custom_fields, bc.fields)
       IN build_config' =
              Some([bc EXCEPT !.custom_fields =
                                  Some(IF IsSome(cf) THEN Some(r.list) ELSE Nothing),
                              !.fields = r.fields])
    /\ p_pc' = "process"
    /\ UNCHANGED <<p_field_name, p_field_value, p_old, p_ret, p_swallowed>>

\* Lines 59-70: custom_fields is created if missing, and the fields of the
\* old mode are removed.
P_Cleanup ==
    /\ p_pc = "cleanup"
    /\ LET bc == Get(build_config)
           cf == IF IsSome(bc.custom_fields) THEN Get(bc.custom_fields) ELSE Nothing
           old_custom_fields == IF IsSome(cf) THEN Get(cf) ELSE <<>>
           r == CleanupLoop(old_custom_fields, old_custom_fields, bc.fields)
       IN build_config' =
              Some([bc EXCEPT !.custom_fields =
                                  Some(IF IsSome(cf) THEN Some(r.list) ELSE Nothing),
                              !.fields = r.fields])
    /\ p_pc' = "process"
    /\ UNCHANGED <<p_field_name, p_field_value, p_old, p_ret, p_swallowed>>

\* Lines 74-91: validation and re-processing; a ValueError is swallowed, and
\* build_config is returned.
P_Process ==
    /\ p_pc = "process"
    /\ LET bc == Get(build_config)
           is_mustache == p_field_value = "{{variable}}"
           checked == IF is_mustache
                      THEN validate_mustache_template(bc.template.value)
                      ELSE Returned(TRUE)
           done == process_prompt_template(bc.template.value, bc, is_mustache)
       IN IF checked.raised
          THEN p_swallowed' = TRUE /\ build_config' = build_config
          ELSE p_swallowed' = done.raised /\ build_config' = Some(done.bc)
    /\ p_pc' = "done" /\ p_ret' = TRUE
    /\ UNCHANGED <<p_field_name, p_field_value, p_old>>

(***************************************************************************)
(* Specifications: one per piece, the other pieces at rest.                *)
(***************************************************************************)
NextResult ==
    \/ Construct /\ UNCHANGED <<valVars, autoVars, recVars, prVars>>
    \/ ReadProperties /\ UNCHANGED <<valVars, autoVars, recVars, prVars>>

InitResult == ResInit /\ ValIdle /\ AutoIdle /\ RecIdle /\ PrIdle

SpecResult == InitResult /\ [][NextResult]_vars

NextValidate == ValidateCall /\ UNCHANGED <<resVars, autoVars, recVars, prVars>>

InitValidate == ResIdle /\ ValInit /\ AutoIdle /\ RecIdle /\ PrIdle

SpecValidate == InitValidate /\ [][NextValidate]_vars

NextAuto ==
    \/ A_Start /\ UNCHANGED <<resVars, valVars, recVars, prVars>>
    \/ A_LoadUsers /\ UNCHANGED <<resVars, valVars, recVars, prVars>>
    \/ A_UserFolder /\ UNCHANGED <<resVars, valVars, recVars, prVars>>
    \/ A_Validate /\ UNCHANGED <<resVars, valVars, recVars, prVars>>
    \/ A_Decide /\ UNCHANGED <<resVars, valVars, recVars, prVars>>
    \/ A_Auth /\ UNCHANGED <<resVars, valVars, recVars, prVars>>
    \/ A_CreateApiKey /\ UNCHANGED <<resVars, valVars, recVars, prVars>>
    \/ A_SseUrl /\ UNCHANGED <<resVars, valVars, recVars, prVars>>
    \/ A_UpdateServer /\ UNCHANGED <<resVars, valVars, recVars, prVars>>
    \/ A_Commit /\ UNCHANGED <<resVars, valVars, recVars, prVars>>

InitAuto == ResIdle /\ ValIdle /\ AutoInit /\ RecIdle /\ PrIdle

SpecAuto == InitAuto /\ [][NextAuto]_vars

NextRecorder ==
    \/ R_Register /\ UNCHANGED <<resVars, valVars, autoVars, prVars>>
    \/ R_Iterate /\ UNCHANGED <<resVars, valVars, autoVars, prVars>>
    \/ R_Finally /\ UNCHANGED <<resVars, valVars, autoVars, prVars>>
    \/ G_LateEvent /\ UNCHANGED <<resVars, valVars, autoVars, prVars>>

InitRecorder == ResIdle /\ ValIdle /\ AutoIdle /\ RecInit /\ PrIdle

SpecRecorder == InitRecorder /\ [][NextRecorder]_vars

NextPrompt ==
    \/ P_OtherField /\ UNCHANGED <<resVars, valVars, autoVars, recVars>>
    \/ P_SetType /\ UNCHANGED <<resVars, valVars, autoVars, recVars>>
    \/ P_Cleanup /\ UNCHANGED <<resVars, valVars, autoVars, recVars>>
    \/ P_Process /\ UNCHANGED <<resVars, valVars, autoVars, recVars>>

InitPrompt == ResIdle /\ ValIdle /\ AutoIdle /\ RecIdle /\ PrInit

SpecPrompt == InitPrompt /\ [][NextPrompt]_vars

\* All of them: the pieces share no state, so a behaviour is a behaviour of
\* one piece.
Init == InitResult \/ InitValidate \/ InitAuto \/ InitRecorder \/ InitPrompt
Next == NextResult \/ NextValidate \/ NextAuto \/ NextRecorder \/ NextPrompt
Spec == Init /\ [][Next]_vars

(***************************************************************************)
(* The claims.                                                             *)
(***************************************************************************)

\* C1: when get_server_list succeeds and the generated server name is not a
\* key of the returned "mcpServers", validate_mcp_server_for_project returns
\* (does not raise) a result with server_exists false and server_name the
\* generated name, so should_proceed is true and has_conflict and should_skip
\* are false.
C1_NotFoundReturnsProceed ==
    (/\ IsSome(v_out)
     /\ ~Get(v_in).gsl.raised
     /\ GeneratedServerName(Get(v_in).project_name) \notin DOMAIN ValServers)
    => /\ ValReturned
       /\ ~ValResult.server_exists
       /\ ValResult.server_name = GeneratedServerName(Get(v_in).project_name)
       /\ should_proceed(ValResult)
       /\ ~has_conflict(ValResult)
       /\ ~should_skip(ValResult)

\* C2: whenever get_server_list, or any step inside the try block, raises,
\* validate_mcp_server_for_project logs a warning and returns a result with
\* server_exists false and the generated server name, for which
\* should_proceed is true; it never raises.
C2_FailureReturnsProceed ==
    (/\ IsSome(v_out)
     /\ ValidateTry(Get(v_in).project_id, Get(v_in).operation,
                    GeneratedServerName(Get(v_in).project_name),
                    Get(v_in).gsl).raised)
    => /\ Get(v_out).warned
       /\ ValReturned
       /\ ~ValResult.server_exists
       /\ ValResult.server_name = GeneratedServerName(Get(v_in).project_name)
       /\ should_proceed(ValResult)

\* C3: with add_projects_to_mcp_servers enabled and every external call
\* succeeding, at the end of auto_configure_starter_projects_mcp every user
\* who has a starter folder and whose server list did not hold the starter
\* server name has had update_server called exactly once, with that name and
\* a configuration whose last argument is the SSE URL of the user's starter
\* folder, and the server is in the user's list.
C3_EveryMissingServerConfigured ==
    (a_pc = "done" /\ a_enabled /\ ~a_failed)
    => \A u \in 1..Len(a_users) :
          (IsSome(a_folder[u]) /\ StarterServerName \notin DOMAIN a_servers0[u])
          => /\ Len(a_updates[u]) = 1
             /\ a_updates[u][1].server_name = StarterServerName
             /\ LET args == Get(a_updates[u][1].server_config.args)
                IN args[Len(args)] = get_project_sse_url(FolderIds[u], Get(a_settings))
             /\ StarterServerName \in DOMAIN a_servers[u]

\* C4: for every MCPServerValidationResult, has_conflict and should_skip are
\* never both true, should_proceed is the negation of has_conflict,
\* should_skip implies should_proceed, and when server_exists is false
\* should_proceed is true and has_conflict and should_skip are false,
\* whatever project_id_matches is.
C4_PropertiesConsistent ==
    IsSome(props)
    => LET self == Get(Get(obj).value)
           p == Get(props)
       IN /\ ~(p.has_conflict /\ p.should_skip)
          /\ p.should_proceed = ~p.has_conflict
          /\ p.should_skip => p.should_proceed
          /\ ~self.server_exists
                => p.should_proceed /\ ~p.has_conflict /\ ~p.should_skip

\* A result with server_exists false and project_id_matches true has had its
\* properties read.
C4_Witness ==
    /\ IsSome(props)
    /\ ~Get(Get(obj).value).server_exists
    /\ Get(Get(obj).value).project_id_matches

\* C5: a user for whom validation returned should_skip (the server exists for
\* the same project) gets no API key and no update_server call, and the
\* starter folder's auth_settings stay as they were.
C5_SkippedUserUntouched ==
    \A u \in 1..Len(a_users) :
        (/\ IsSome(a_validation[u])
         /\ Get(a_validation[u]).server_exists
         /\ Get(a_validation[u]).project_id_matches)
        => /\ a_keys[u] = 0
           /\ a_updates[u] = <<>>
           /\ a_auth[u] = a_auth0[u]

\* The run has ended having skipped a user whose folder had no auth_settings,
\* and having set up another user.
C5_Witness ==
    /\ a_pc = "done"
    /\ \E u \in 1..Len(a_users) :
          /\ IsSome(a_validation[u])
          /\ should_skip(Get(a_validation[u]))
          /\ a_auth0[u] = Nothing
    /\ \E u \in 1..Len(a_users) : a_keys[u] = 1

\* C6: recorder.events is exactly the sequence of events on_event was called
\* with, in order, nothing dropped, reordered or deduplicated, and the
\* recording returned by get_recording has the same events.
C6_EventsAreTheCalls ==
    /\ events = calls
    /\ Len(events) = Len(calls)
    /\ IsSome(recording) => Get(recording).events = calls

\* The same event has been received twice and a recording returned.
C6_Witness ==
    /\ IsSome(recording)
    /\ Len(calls) >= 3
    /\ calls[1] = calls[2]
    /\ calls[3] # calls[1]

\* C7: the observer is registered while the graph executes and is not
\* registered once the call has ended, whether the graph yielded Finish, ran
\* out of results or raised; on an exception the exception leaves the call
\* and no recording is returned; no result is taken after the first Finish.
C7_ObserverScoped ==
    /\ r_pc = "start" => pos = 0 /\ calls = <<>>
    /\ r_pc = "iter" => IsRegistered(observers, "rec")
    /\ r_pc \in {"done", "raised"} => ~IsRegistered(observers, "rec")
    /\ r_pc = "raised" => IsSome(r_exc) /\ recording = Nothing
    /\ r_pc = "done" => r_exc = Nothing /\ IsSome(recording)
    /\ IsSome(r_exc) => r_pc \in {"finally", "raised"}
    /\ \A i \in 1..Len(consumed) :
          consumed[i] = "Finish" => i = Len(consumed) /\ r_pc # "iter"
    /\ (r_pc \in {"done", "raised"} /\ pos < Len(plan))
          => \/ IsSome(r_exc)
             \/ consumed # <<>> /\ consumed[Len(consumed)] = "Finish"

\* async_start raised after the recorder had received events, the call has
\* ended, and the graph has mutated again since.
C7_Witness ==
    /\ r_pc = "raised"
    /\ Len(calls) > 0
    /\ r_late > 0

\* The listed custom fields of the template, and whether a name is gone from
\* both the list and build_config.
PromptList ==
    LET cf == Get(build_config).custom_fields
    IN IF IsSome(cf) /\ IsSome(Get(cf)) THEN Get(Get(cf)) ELSE <<>>

PromptGone(f) == f \notin SeqToSet(PromptList) /\ f \notin Get(build_config).fields

\* C8: on a change of mode with a non-empty template, the template's type is
\* the new mode's type and every field name the list held before the call
\* has been removed from the list and from build_config before the template
\* is re-processed; a ValueError from validation or re-processing is
\* swallowed and build_config returned, with those names still gone. After
\* a re-processing that succeeds, a name of the old list is present only if
\* the template declares it under the new mode.
C8_ModeChangeCleansOldFields ==
    LET applies == p_field_name = "mode" /\ Get(build_config).template.value # <<>>
        ty == Get(build_config).template.type
        declared == SeqToSet(TokenNames(Get(build_config).template.value,
                                        IF p_field_value = "{{variable}}"
                                        THEN "double" ELSE "single", {}))
    IN /\ p_pc = "process"
          => ty = ModeType(p_field_value) /\ \A f \in SeqToSet(p_old) : PromptGone(f)
       /\ (p_pc = "done" /\ applies)
          => /\ p_ret
             /\ ty = ModeType(p_field_value)
             /\ p_swallowed => \A f \in SeqToSet(p_old) : PromptGone(f)
             /\ \A f \in SeqToSet(p_old) \ declared : PromptGone(f)

\* A ValueError has been swallowed on a mode change whose old list named the
\* same field twice.
C8_Witness ==
    /\ p_pc = "done"
    /\ p_swallowed
    /\ Len(p_old) = 2
    /\ p_old[1] = p_old[2]

====
